---- MODULE Spec2Model ----
(***************************************************************************)
(* Model of homeassistant/components/zha/core/channels/base.py: one        *)
(* channel object (ZigbeeChannel, AttributeListeningChannel,               *)
(* EventRelayChannel or ZDOChannel), its lifecycle status, the coroutines  *)
(* that await the zigpy cluster (bind, configure_reporting, the wrapped    *)
(* cluster commands, the attribute read) and the position of the one       *)
(* coroutine that is running.  Every await of the cluster is a suspension  *)
(* point: the call is logged in `calls` when it is issued and its result   *)
(* is filled in by the action that resumes the coroutine.                  *)
(***************************************************************************)
EXTENDS Integers, Sequences, FiniteSets, TLC

(* ------------------------------------------------------------------ *)
(* Bounds of the model                                                *)
(* ------------------------------------------------------------------ *)
MaxReportConfig == 2

(* ------------------------------------------------------------------ *)
(* Program constants                                                  *)
(* ------------------------------------------------------------------ *)
CREATED == 1
CONFIGURED == 2
INITIALIZED == 3
ChannelStatus == {CREATED, CONFIGURED, INITIALIZED}

ManufacturerSpecificStart == 64512

\* Python's None where an integer is expected (manufacturer, attr).
None == -1
\* Python's None as a returned value.
NoneValue == "None"

Kinds == {"ZigbeeChannel", "AttributeListeningChannel", "EventRelayChannel", "ZDOChannel"}

\* cluster.cluster_id: two ids of the standard range (0x0006 and 0xFBFF, the
\* last one below the threshold) and the first manufacturer specific one.
ClusterIds == {6, 64511, 64512}
\* ch_pool.manufacturer_code: absent, or a declared code.
ManufacturerCodes == {None, 4447}
\* attribute ids used in REPORT_CONFIG and in direct calls
Attrs == {0, 32}
\* the reporting tuples of const.py, by name
Configs == {"REPORT_CONFIG_DEFAULT"}
ReportConfigEntries == [attr : Attrs, config : Configs]

\* what an awaited cluster call can produce: a result, or an exception
Values == {"res1", "res2"}
DeliveryError == "DeliveryError"
TimeoutError == "TimeoutError"
OtherError == "OtherError"
Exceptions == {DeliveryError, TimeoutError, OtherError}
Results == Values \cup Exceptions
\* bind and configure_reporting only log what the cluster answers, so one
\* answer stands for all of them
ConfigResults == {"res1"} \cup Exceptions

VARIABLES kind, skip_configuration, is_server, cluster_id, manufacturer_code,
          report_config, status, op, op_args, pc, idx, calls, outcome, prev_status,
          resolved, server_commands, hook, emitted

config_vars == <<kind, skip_configuration, is_server, cluster_id,
                 manufacturer_code, report_config, server_commands>>
hook_vars == <<hook, emitted>>
vars == <<kind, skip_configuration, is_server, cluster_id, manufacturer_code,
          report_config, status, op, op_args, pc, idx, calls, outcome, prev_status,
          resolved, server_commands, hook, emitted>>

RECURSIVE SeqsUpTo(_, _)
SeqsUpTo(S, n) ==
    IF n = 0 THEN {<<>>}
    ELSE LET shorter == SeqsUpTo(S, n - 1)
         IN  shorter \cup {Append(s, e) : s \in {t \in shorter : Len(t) = n - 1}, e \in S}

\* The class attribute REPORT_CONFIG of the channel class.  ZigbeeChannel
\* stands for the base class, whose REPORT_CONFIG is (), and for the cluster
\* channels derived from it, which declare their own entries.
\* AttributeListeningChannel declares exactly one entry (its attr is 0 in the
\* class itself).  EventRelayChannel inherits () from the base class, and
\* ZDOChannel has no report config at all.
ReportConfigsOf(k) ==
    CASE k = "ZDOChannel" -> {<<>>}
      [] k = "EventRelayChannel" -> {<<>>}
      [] k = "AttributeListeningChannel" ->
            {s \in SeqsUpTo(ReportConfigEntries, 1) : Len(s) = 1}
      [] OTHER -> SeqsUpTo(ReportConfigEntries, MaxReportConfig)

Returned(v) == [kind |-> "returned", value |-> v]
Raised(ex) == [kind |-> "raised", value |-> ex]
NoOutcome == [kind |-> "none", value |-> NoneValue]
NoResolution == [kind |-> "none", name |-> NoneValue]

\* the arguments the running operation was called with
Args(attribute, from_cache) == [attribute |-> attribute, from_cache |-> from_cache]
NoArgs == Args(None, FALSE)

Call(fn, attr, config, manufacturer, from_cache, name) ==
    [fn |-> fn, attr |-> attr, config |-> config, manufacturer |-> manufacturer,
     allow_cache |-> from_cache, only_cache |-> from_cache, name |-> name,
     result |-> "pending"]

\* the pending call (always the last of the log) gets its result
Completed(r) == [calls EXCEPT ![Len(calls)].result = r]

(* ------------------------------------------------------------------ *)
(* Inbound events: what the cluster's listener dispatch delivers      *)
(* ------------------------------------------------------------------ *)

\* values an attribute report carries
ReportedValues == {42}
\* command ids of inbound cluster commands: 5 is in the table, 6 is not
CommandIds == {5, 6}
\* the args of an inbound cluster command
CommandArgs == <<7>>
\* the transaction sequence number of an inbound cluster command
Tsn == 1

\* cluster.attributes: id -> (name, type); attribute 32 has no entry
ClusterAttributes == [a \in {0} |-> <<"on_off", "t.Bool">>]

\* cluster.server_commands when the cluster has a table:
\* id -> (name, schema, is_reply)
ServerCommands == [c \in {5} |-> <<"toggle", "()", "False">>]
CommandTable(t) == [is_none |-> FALSE, table |-> t]
\* cluster.server_commands is None
NoCommandTable == [is_none |-> TRUE, table |-> <<>>]

\* EventRelayChannel is the one class that reads cluster.server_commands
ServerCommandTablesOf(k) ==
    IF k = "EventRelayChannel"
    THEN {NoCommandTable, CommandTable(ServerCommands)}
    ELSE {CommandTable(ServerCommands)}

SIGNAL_ATTR_UPDATED == "attribute_updated"

Hook(name, attrid, value, command_id, args) ==
    [name |-> name, attrid |-> attrid, value |-> value,
     command_id |-> command_id, args |-> args]
NoHook == Hook("none", None, None, None, <<>>)

Init ==
    /\ kind \in Kinds
    /\ skip_configuration \in (IF kind = "ZDOChannel" THEN {FALSE} ELSE BOOLEAN)
    /\ is_server \in (IF kind = "ZDOChannel" THEN {TRUE} ELSE BOOLEAN)
    /\ cluster_id \in (IF kind = "ZDOChannel" THEN {0} ELSE ClusterIds)
    /\ manufacturer_code \in (IF kind = "ZDOChannel" THEN {None} ELSE ManufacturerCodes)
    /\ report_config \in ReportConfigsOf(kind)
    /\ status = CREATED
    /\ op = "none"
    /\ pc = "idle"
    /\ idx = 0
    /\ calls = <<>>
    /\ outcome = NoOutcome
    /\ prev_status = CREATED
    /\ resolved = NoResolution
    /\ server_commands \in ServerCommandTablesOf(kind)
    /\ hook = NoHook
    /\ emitted = <<>>
    /\ op_args = NoArgs

(* ------------------------------------------------------------------ *)
(* Helpers of the coroutines                                          *)
(* ------------------------------------------------------------------ *)

\* Python truth value of ch_pool.manufacturer_code (None and 0 are false)
Truthy(x) == x # None /\ x # 0

\* start of a call on the channel: the orchestrator runs one operation at a
\* time, so a call starts only when no coroutine of the channel is suspended
Start(o, a) ==
    /\ pc = "idle"
    /\ op' = o
    /\ op_args' = a
    /\ prev_status' = status

\* the running coroutine ends
Finish(res) ==
    /\ pc' = "idle"
    /\ outcome' = res

\* faulty variant of BindCaught: the except clause forgets asyncio.TimeoutError
BindCaught_OnlyDelivery == {DeliveryError}

\* `except (zigpy.exceptions.DeliveryError, asyncio.TimeoutError)` of bind
BindCaught == {DeliveryError, TimeoutError}

\* faulty variant of ReportingCaught: configure_reporting has no try/except
ReportingCaught_Nothing == {}

\* faulty variant of ReportingCaught: the except clause forgets asyncio.TimeoutError
ReportingCaught_OnlyDelivery == {DeliveryError}

\* the same clause of configure_reporting
ReportingCaught == {DeliveryError, TimeoutError}

\* faulty variant of CommandCaught: a bare `except Exception`
CommandCaught_Everything == Exceptions

\* the same clause of the wrapper of decorate_command
CommandCaught == {DeliveryError, TimeoutError}

\* faulty variant of WrapperOutcome: the except branch swallows the error and
\* returns None, as bind does
WrapperOutcome_ReturnsNone(r) ==
    IF r \in Values THEN Returned(r)
    ELSE IF r \in {DeliveryError, TimeoutError} THEN Returned(NoneValue)
    ELSE Raised(r)

\* what the wrapper of decorate_command does with the awaited command:
\* a result is returned, a caught exception is returned as the value,
\* anything else is raised
WrapperOutcome(r) ==
    IF r \in Values THEN Returned(r)
    ELSE IF r \in CommandCaught THEN Returned(r)
    ELSE Raised(r)

\* faulty variant of ManufacturerKwarg: `>` instead of `>=`
ManufacturerKwarg_Above ==
    IF cluster_id > 64512 /\ manufacturer_code # None /\ manufacturer_code # 0
    THEN manufacturer_code ELSE None

\* kwargs["manufacturer"] of configure_reporting (None: the key is absent)
ManufacturerKwarg ==
    IF cluster_id >= ManufacturerSpecificStart /\ Truthy(manufacturer_code)
    THEN manufacturer_code ELSE None

\* the manufacturer argument of get_attribute_value
ManufacturerArg ==
    IF cluster_id >= ManufacturerSpecificStart /\ Truthy(manufacturer_code)
    THEN manufacturer_code ELSE None

\* faulty variant of SkipsConfiguration: the flag is ignored
SkipsConfiguration_Never == FALSE

\* `if not self._ch_pool.skip_configuration` of async_configure
SkipsConfiguration == skip_configuration

\* faulty variant of ConfiguresReporting: the role is not looked at
ConfiguresReporting_AnyRole == TRUE

\* `if self.cluster.is_server` of async_configure
ConfiguresReporting == is_server

\* faulty variant of ReportEntry: the entries are walked backwards
ReportEntry_Reversed(i) == report_config[Len(report_config) + 1 - i]

\* the entry of the i-th iteration of `for report_config in self._report_config`
ReportEntry(i) == report_config[i]

BindCall == Call("bind", None, NoneValue, None, FALSE, "bind")
ReportingCall(attr, config) ==
    Call("configure_reporting", attr, config, ManufacturerKwarg, FALSE, "configure_reporting")
SleepCall == Call("sleep", None, NoneValue, None, FALSE, "sleep")
\* faulty variant of ReadCall: allow_cache keeps the default of safe_read
ReadCall_AllowCacheDefault(attribute, from_cache) ==
    [Call("read_attributes", attribute, NoneValue, ManufacturerArg, from_cache, "read_attributes")
        EXCEPT !.allow_cache = TRUE]

ReadCall(attribute, from_cache) ==
    Call("read_attributes", attribute, NoneValue, ManufacturerArg, from_cache, "read_attributes")
CommandCall(name) == Call("command", None, NoneValue, None, FALSE, name)

(* ------------------------------------------------------------------ *)
(* Lifecycle: async_configure                                         *)
(* ------------------------------------------------------------------ *)

\* ZigbeeChannel.async_configure up to its first await, and the whole of
\* ZDOChannel.async_configure
AsyncConfigure ==
    /\ Start("async_configure", NoArgs)
    /\ resolved' = NoResolution
    /\ idx' = 0
    /\ IF kind = "ZDOChannel"
       THEN /\ status' = CONFIGURED
            /\ calls' = <<>>
            /\ Finish(Returned(NoneValue))
       ELSE IF SkipsConfiguration
       THEN /\ status' = CONFIGURED
            /\ calls' = <<>>
            /\ Finish(Returned(NoneValue))
       ELSE /\ calls' = <<BindCall>>
            /\ pc' = "bind"
            /\ outcome' = NoOutcome
            /\ UNCHANGED status
    /\ UNCHANGED <<config_vars, hook_vars>>

\* ZigbeeChannel.bind called by a consumer, up to `await self.cluster.bind()`
Bind ==
    /\ kind # "ZDOChannel"
    /\ Start("bind", NoArgs)
    /\ resolved' = NoResolution
    /\ calls' = <<BindCall>>
    /\ pc' = "bind"
    /\ outcome' = NoOutcome
    /\ UNCHANGED <<config_vars, hook_vars, status, idx>>

\* `await self.cluster.bind()` resumes with r; bind returns or raises, and
\* async_configure, when it is the caller, goes on to the reporting loop
BindComplete(r) ==
    /\ pc = "bind"
    /\ IF r \in Values \/ r \in BindCaught
       THEN IF op = "bind"
            THEN /\ calls' = Completed(r)
                 /\ Finish(Returned(NoneValue))
                 /\ UNCHANGED <<status, idx>>
            ELSE IF ConfiguresReporting /\ Len(report_config) > 0
            THEN /\ idx' = 1
                 /\ calls' = Append(Completed(r),
                                    ReportingCall(ReportEntry(1).attr, ReportEntry(1).config))
                 /\ pc' = "configure_reporting"
                 /\ UNCHANGED <<status, outcome>>
            ELSE /\ calls' = Completed(r)
                 /\ status' = CONFIGURED
                 /\ Finish(Returned(NoneValue))
                 /\ UNCHANGED idx
       ELSE /\ calls' = Completed(r)
            /\ Finish(Raised(r))
            /\ UNCHANGED <<status, idx>>
    /\ UNCHANGED <<config_vars, hook_vars, op, op_args, prev_status, resolved>>

\* ZigbeeChannel.configure_reporting called by a consumer, up to its await
ConfigureReporting(attr, config) ==
    /\ kind # "ZDOChannel"
    /\ Start("configure_reporting", Args(attr, FALSE))
    /\ resolved' = NoResolution
    /\ calls' = <<ReportingCall(attr, config)>>
    /\ pc' = "configure_reporting"
    /\ outcome' = NoOutcome
    /\ UNCHANGED <<config_vars, hook_vars, status, idx>>

\* faulty variant of ConfigureReportingComplete: the loop body has no
\* asyncio.sleep, the next entry is configured at once
ConfigureReportingComplete_NoSleep(r) ==
    /\ pc = "configure_reporting"
    /\ IF r \in Values \/ r \in ReportingCaught
       THEN IF op = "configure_reporting"
            THEN /\ calls' = Completed(r)
                 /\ Finish(Returned(NoneValue))
                 /\ UNCHANGED <<status, idx>>
            ELSE IF idx < Len(report_config)
            THEN /\ idx' = idx + 1
                 /\ calls' = Append(Completed(r),
                                    ReportingCall(ReportEntry(idx + 1).attr,
                                                  ReportEntry(idx + 1).config))
                 /\ UNCHANGED <<pc, status, outcome>>
            ELSE /\ calls' = Completed(r)
                 /\ status' = CONFIGURED
                 /\ Finish(Returned(NoneValue))
                 /\ UNCHANGED idx
       ELSE /\ calls' = Completed(r)
            /\ Finish(Raised(r))
            /\ UNCHANGED <<status, idx>>
    /\ UNCHANGED <<config_vars, hook_vars, op, op_args, prev_status, resolved>>

\* `await self.cluster.configure_reporting(...)` resumes with r; inside
\* async_configure the loop body goes on to asyncio.sleep
ConfigureReportingComplete(r) ==
    /\ pc = "configure_reporting"
    /\ IF r \in Values \/ r \in ReportingCaught
       THEN IF op = "configure_reporting"
            THEN /\ calls' = Completed(r)
                 /\ Finish(Returned(NoneValue))
            ELSE /\ calls' = Append(Completed(r), SleepCall)
                 /\ pc' = "sleep"
                 /\ UNCHANGED outcome
       ELSE /\ calls' = Completed(r)
            /\ Finish(Raised(r))
    /\ UNCHANGED <<config_vars, hook_vars, status, op, op_args, idx, prev_status, resolved>>

\* faulty variant of SleepElapsed: the loop is left after the last pause
\* without reaching the assignment of the status
SleepElapsed_ForgetsStatus ==
    /\ pc = "sleep"
    /\ IF idx < Len(report_config)
       THEN /\ idx' = idx + 1
            /\ calls' = Append(Completed("elapsed"),
                               ReportingCall(ReportEntry(idx + 1).attr,
                                             ReportEntry(idx + 1).config))
            /\ pc' = "configure_reporting"
            /\ UNCHANGED <<status, outcome>>
       ELSE /\ calls' = Completed("elapsed")
            /\ Finish(Returned(NoneValue))
            /\ UNCHANGED <<status, idx>>
    /\ UNCHANGED <<config_vars, hook_vars, op, op_args, prev_status, resolved>>

\* `await asyncio.sleep(uniform(0.1, 0.5))` elapses: next entry, or the end
\* of async_configure
SleepElapsed ==
    /\ pc = "sleep"
    /\ IF idx < Len(report_config)
       THEN /\ idx' = idx + 1
            /\ calls' = Append(Completed("elapsed"),
                               ReportingCall(ReportEntry(idx + 1).attr,
                                             ReportEntry(idx + 1).config))
            /\ pc' = "configure_reporting"
            /\ UNCHANGED <<status, outcome>>
       ELSE /\ calls' = Completed("elapsed")
            /\ status' = CONFIGURED
            /\ Finish(Returned(NoneValue))
            /\ UNCHANGED idx
    /\ UNCHANGED <<config_vars, hook_vars, op, op_args, prev_status, resolved>>

(* ------------------------------------------------------------------ *)
(* Attribute read and async_initialize                                *)
(* ------------------------------------------------------------------ *)

\* helpers.safe_read: the dict of the attributes read, or an empty dict when
\* the read is not available
SafeRead(r) == IF r \in Values THEN r ELSE "empty"

\* `return result.get(attribute)` of get_attribute_value
AttributeValue(result) == IF result = "empty" THEN NoneValue ELSE result

\* ZigbeeChannel.get_attribute_value called by a consumer, up to its await
GetAttributeValue(attribute, from_cache) ==
    /\ kind # "ZDOChannel"
    /\ Start("get_attribute_value", Args(attribute, from_cache))
    /\ resolved' = NoResolution
    /\ calls' = <<ReadCall(attribute, from_cache)>>
    /\ pc' = "read_attributes"
    /\ outcome' = NoOutcome
    /\ UNCHANGED <<config_vars, hook_vars, status, idx>>

\* faulty variant of AsyncInitialize: AttributeListeningChannel calls
\* super().async_initialize before it reads the attribute
AsyncInitialize_SuperFirst(from_cache) ==
    /\ Start("async_initialize", Args(None, from_cache))
    /\ resolved' = NoResolution
    /\ status' = INITIALIZED
    /\ IF kind = "AttributeListeningChannel"
       THEN /\ calls' = <<ReadCall(report_config[1].attr, from_cache)>>
            /\ pc' = "read_attributes"
            /\ outcome' = NoOutcome
       ELSE /\ calls' = <<>>
            /\ Finish(Returned(NoneValue))
    /\ UNCHANGED <<config_vars, hook_vars, idx>>

\* async_initialize: ZigbeeChannel (and EventRelayChannel, which inherits
\* it) and ZDOChannel set the status without awaiting;
\* AttributeListeningChannel first awaits get_attribute_value
AsyncInitialize(from_cache) ==
    /\ Start("async_initialize", Args(None, from_cache))
    /\ resolved' = NoResolution
    /\ IF kind = "AttributeListeningChannel"
       THEN /\ calls' = <<ReadCall(report_config[1].attr, from_cache)>>
            /\ pc' = "read_attributes"
            /\ outcome' = NoOutcome
            /\ UNCHANGED status
       ELSE /\ calls' = <<>>
            /\ status' = INITIALIZED
            /\ Finish(Returned(NoneValue))
    /\ UNCHANGED <<config_vars, hook_vars, idx>>

\* `await safe_read(...)` resumes: get_attribute_value returns the value,
\* and AttributeListeningChannel.async_initialize goes on to
\* super().async_initialize
ReadComplete(r) ==
    /\ pc = "read_attributes"
    /\ calls' = Completed(r)
    /\ IF op = "get_attribute_value"
       THEN /\ Finish(Returned(AttributeValue(SafeRead(r))))
            /\ UNCHANGED status
       ELSE /\ status' = INITIALIZED
            /\ Finish(Returned(NoneValue))
    /\ UNCHANGED <<config_vars, hook_vars, op, op_args, idx, prev_status, resolved>>

(* ------------------------------------------------------------------ *)
(* Dynamic command forwarding: __getattr__ and decorate_command       *)
(* ------------------------------------------------------------------ *)

\* names looked up on the channel
Names == {"bind", "configure_reporting", "status", "on", "toggle",
          "cluster_id", "ep_attribute", "missing"}

\* names the class ZigbeeChannel (or the instance) defines: the normal
\* attribute lookup finds them and __getattr__ is not called
ChannelMembers == {"bind", "configure_reporting", "async_configure",
                   "async_initialize", "async_update", "get_attribute_value",
                   "status", "cluster", "id", "generic_id", "unique_id", "name",
                   "async_send_signal", "zha_send_event", "cluster_command",
                   "attribute_updated", "zdo_command", "log"}

\* members of the zigpy cluster that are callable (its commands and methods)
ClusterCallables == {"bind", "configure_reporting", "read_attributes", "on", "toggle"}
\* members of the zigpy cluster that are plain data
ClusterData == {"cluster_id", "ep_attribute", "status"}

\* `hasattr(self._cluster, name)`
ClusterHasAttr(name) == name \in ClusterCallables \cup ClusterData

\* faulty variant of GetAttrFallback: the callable() test is missing
GetAttrFallback_NoCallableTest(name) ==
    IF name \in ClusterCallables \cup ClusterData
    THEN "wrapped"
    ELSE "AttributeError"

\* ZigbeeChannel.__getattr__(name)
GetAttrFallback(name) ==
    IF ClusterHasAttr(name) /\ name \in ClusterCallables
    THEN "wrapped"
    ELSE "AttributeError"

\* getattr(channel, name): Python calls __getattr__ only when the normal
\* lookup fails
Resolve(name) ==
    IF name \in ChannelMembers THEN "member" ELSE GetAttrFallback(name)

\* a consumer evaluates channel.<name> and, when it got a wrapped cluster
\* command, calls it: the wrapper runs up to `await command(...)`
GetAttr(name) ==
    /\ kind # "ZDOChannel"
    /\ Start("getattr", NoArgs)
    /\ resolved' = [kind |-> Resolve(name), name |-> name]
    /\ CASE Resolve(name) = "wrapped" ->
              /\ calls' = <<CommandCall(name)>>
              /\ pc' = "command"
              /\ outcome' = NoOutcome
         [] Resolve(name) = "member" ->
              /\ calls' = <<>>
              /\ Finish(Returned("member"))
         [] OTHER ->
              /\ calls' = <<>>
              /\ Finish(Raised("AttributeError"))
    /\ UNCHANGED <<config_vars, hook_vars, status, idx>>

\* `await command(*args, **kwds)` of the wrapper resumes with r
CommandComplete(r) ==
    /\ pc = "command"
    /\ calls' = Completed(r)
    /\ Finish(WrapperOutcome(r))
    /\ UNCHANGED <<config_vars, hook_vars, status, op, op_args, idx, prev_status, resolved>>

(* ------------------------------------------------------------------ *)
(* Identity of the channel, signals and events                        *)
(* ------------------------------------------------------------------ *)

HexDigits == <<"0", "1", "2", "3", "4", "5", "6", "7",
               "8", "9", "a", "b", "c", "d", "e", "f">>

\* the format `{:04x}` of a 16 bit number
Hex4(n) ==
    HexDigits[((n \div 4096) % 16) + 1] \o HexDigits[((n \div 256) % 16) + 1]
        \o HexDigits[((n \div 16) % 16) + 1] \o HexDigits[(n % 16) + 1]

\* ch_pool.unique_id.replace("-", ":") of the pool "00:0d:6f:00:0a:90:69:e7-1"
PoolUniqueId == "00:0d:6f:00:0a:90:69:e7:1"

\* ZigbeeChannel.unique_id
UniqueId == PoolUniqueId \o ":0x" \o Hex4(cluster_id)

\* ch_pool.async_send_signal(signal, value), as ZigbeeChannel.async_send_signal
\* hands it over
Signal(signal, value) ==
    [via |-> "signal", name |-> signal, unique_id |-> NoneValue, cluster_id |-> None,
     attribute_id |-> None, attribute_name |-> NoneValue, value |-> value, args |-> <<>>]

\* ch_pool.zha_send_event(payload), as ZigbeeChannel.zha_send_event builds the
\* payload; the args of an attribute report are the three fields of its dict
Event(command, attribute_id, attribute_name, value, args) ==
    [via |-> "event", name |-> command, unique_id |-> UniqueId, cluster_id |-> cluster_id,
     attribute_id |-> attribute_id, attribute_name |-> attribute_name,
     value |-> value, args |-> args]

(* ------------------------------------------------------------------ *)
(* Inbound-event hooks                                                *)
(* ------------------------------------------------------------------ *)

\* AttributeListeningChannel.value_attribute (the attr of entry 0 of the
\* report config, which is a numeric id here)
ValueAttribute == report_config[1].attr

\* faulty variant of IsValueAttribute: the filter is missing
IsValueAttribute_Any(attrid) == TRUE

\* `if attrid == self.value_attribute` of AttributeListeningChannel
IsValueAttribute(attrid) == attrid = ValueAttribute

\* faulty variant of AttributeName: `.get(attrid)` without the default
AttributeName_NoDefault(attrid) ==
    IF attrid \in DOMAIN ClusterAttributes THEN ClusterAttributes[attrid][1] ELSE NoneValue

\* `self._cluster.attributes.get(attrid, ["Unknown"])[0]`
AttributeName(attrid) ==
    IF attrid \in DOMAIN ClusterAttributes THEN ClusterAttributes[attrid][1] ELSE "Unknown"

\* the condition of EventRelayChannel.cluster_command
CommandRecognized(command_id) ==
    /\ ~server_commands.is_none
    /\ command_id \in DOMAIN server_commands.table

\* faulty variant of CommandName: the schema of the entry instead of its name
CommandName_Schema(command_id) == server_commands.table[command_id][2]

\* `self._cluster.server_commands.get(command_id)[0]`
CommandName(command_id) == server_commands.table[command_id][1]

\* what attribute_updated(attrid, value) emits, by class
AttributeUpdatedEmits(attrid, value) ==
    CASE kind = "AttributeListeningChannel" ->
            IF IsValueAttribute(attrid)
            THEN <<Signal(UniqueId \o "_" \o SIGNAL_ATTR_UPDATED, value)>>
            ELSE <<>>
      [] kind = "EventRelayChannel" ->
            <<Event(SIGNAL_ATTR_UPDATED, attrid, AttributeName(attrid), value, <<>>)>>
      [] OTHER -> <<>>

\* what cluster_command(tsn, command_id, args) emits, by class
ClusterCommandEmits(tsn, command_id, args) ==
    IF kind = "EventRelayChannel" /\ CommandRecognized(command_id)
    THEN <<Event(CommandName(command_id), None, NoneValue, None, args)>>
    ELSE <<>>

\* faulty variant of AttributeUpdated: the hook of AttributeListeningChannel
\* reads the attribute back from the cluster
AttributeUpdated_ReadsBack(attrid, value) ==
    /\ kind # "ZDOChannel"
    /\ hook' = Hook("attribute_updated", attrid, value, None, <<>>)
    /\ emitted' = AttributeUpdatedEmits(attrid, value)
    /\ calls' = IF kind = "AttributeListeningChannel"
                THEN Append(calls, ReadCall(attrid, FALSE))
                ELSE calls
    /\ UNCHANGED <<config_vars, status, op, op_args, pc, idx, outcome, prev_status, resolved>>

\* the listener dispatch calls attribute_updated(attrid, value); the hook is
\* synchronous and runs whatever the coroutine of the channel is waiting for
AttributeUpdated(attrid, value) ==
    /\ kind # "ZDOChannel"
    /\ hook' = Hook("attribute_updated", attrid, value, None, <<>>)
    /\ emitted' = AttributeUpdatedEmits(attrid, value)
    /\ UNCHANGED <<config_vars, status, op, op_args, pc, idx, calls, outcome, prev_status, resolved>>

\* the listener dispatch calls cluster_command(tsn, command_id, args)
ClusterCommand(tsn, command_id, args) ==
    /\ kind # "ZDOChannel"
    /\ hook' = Hook("cluster_command", None, None, command_id, args)
    /\ emitted' = ClusterCommandEmits(tsn, command_id, args)
    /\ UNCHANGED <<config_vars, status, op, op_args, pc, idx, calls, outcome, prev_status, resolved>>

\* the listener dispatch calls zdo_command(...): `pass` in every class
ZdoCommand ==
    /\ kind # "ZDOChannel"
    /\ hook' = Hook("zdo_command", None, None, None, <<>>)
    /\ emitted' = <<>>
    /\ UNCHANGED <<config_vars, status, op, op_args, pc, idx, calls, outcome, prev_status, resolved>>

\* ZDOChannel.device_announce(zigpy_device): `pass`
DeviceAnnounce ==
    /\ kind = "ZDOChannel"
    /\ hook' = Hook("device_announce", None, None, None, <<>>)
    /\ emitted' = <<>>
    /\ UNCHANGED <<config_vars, status, op, op_args, pc, idx, calls, outcome, prev_status, resolved>>

\* ZDOChannel.permit_duration(duration): `pass`
PermitDuration ==
    /\ kind = "ZDOChannel"
    /\ hook' = Hook("permit_duration", None, None, None, <<>>)
    /\ emitted' = <<>>
    /\ UNCHANGED <<config_vars, status, op, op_args, pc, idx, calls, outcome, prev_status, resolved>>

(* ------------------------------------------------------------------ *)
(* Specification                                                      *)
(* ------------------------------------------------------------------ *)
Next ==
    \/ AsyncConfigure
    \/ \E from_cache \in BOOLEAN : AsyncInitialize(from_cache)
    \/ Bind
    \/ \E r \in ConfigResults : BindComplete(r)
    \/ \E attr \in Attrs, config \in Configs : ConfigureReporting(attr, config)
    \/ \E r \in ConfigResults : ConfigureReportingComplete(r)
    \/ SleepElapsed
    \/ \E attribute \in Attrs, from_cache \in BOOLEAN : GetAttributeValue(attribute, from_cache)
    \/ \E r \in Results : ReadComplete(r)
    \/ \E name \in Names : GetAttr(name)
    \/ \E r \in Results : CommandComplete(r)
    \/ \E attrid \in Attrs, value \in ReportedValues : AttributeUpdated(attrid, value)
    \/ \E command_id \in CommandIds : ClusterCommand(Tsn, command_id, CommandArgs)
    \/ ZdoCommand
    \/ DeviceAnnounce
    \/ PermitDuration

Spec == Init /\ [][Next]_vars

\* The event loop resumes a coroutine once the call it awaits has completed:
\* the transport bounds every call by its own timeout, so an awaited bind or
\* configure_reporting ends in a result, a delivery failure or a timeout,
\* and asyncio.sleep elapses.
Completes ==
    /\ WF_vars(\E r \in ConfigResults \ {OtherError} : BindComplete(r))
    /\ WF_vars(\E r \in ConfigResults \ {OtherError} : ConfigureReportingComplete(r))
    /\ WF_vars(SleepElapsed)

\* async_configure branches on the class, skip_configuration, is_server and
\* the report config only: the channels of one standard cluster of a device
\* with a manufacturer code cover all of its paths
FairInit == Init /\ (kind # "ZDOChannel" => (cluster_id = 6 /\ manufacturer_code = 4447))

FairSpec == FairInit /\ [][Next]_vars /\ Completes

TypeOK ==
    /\ kind \in Kinds
    /\ status \in ChannelStatus
    /\ pc \in {"idle", "bind", "configure_reporting", "sleep", "read_attributes", "command"}
    /\ idx \in 0..Len(report_config)
    /\ outcome.kind \in {"none", "returned", "raised"}

(* ------------------------------------------------------------------ *)
(* Properties                                                         *)
(* ------------------------------------------------------------------ *)

\* the operation o of the channel has run to its end
Done(o) == op = o /\ pc = "idle"

\* the calls of the running (or last) operation that went to fn
CallsTo(fn) == SelectSeq(calls, LAMBDA c : c.fn = fn)

Contained == {DeliveryError, TimeoutError}

\* C1: under any sequence of asyncConfigure and asyncInitialize calls the
\* status never regresses: no step takes it from Initialized to Configured
\* or Created, or from Configured to Created.
C1_StatusNeverRegresses == [][status' >= status]_vars

\* C2: the status is never skipped: a step that makes the status
\* Initialized starts from Configured, never from Created.
C2_StatusNeverSkipped ==
    [][(status' = INITIALIZED /\ status # INITIALIZED) => status = CONFIGURED]_vars

\* C3 as stated: whatever the transport calls produce, a finished
\* asyncConfigure has returned normally with status Configured and a
\* finished asyncInitialize has returned normally with status Initialized.
C3_LifecycleNeverFails ==
    /\ Done("async_configure") => (outcome.kind = "returned" /\ status = CONFIGURED)
    /\ Done("async_initialize") => (outcome.kind = "returned" /\ status = INITIALIZED)

\* C3 as amended: when every transport call of asyncConfigure ends in
\* success, a delivery failure or a timeout, asyncConfigure returns normally
\* with status Configured; when its bind or configure-reporting call fails
\* with any other failure, that failure propagates out of asyncConfigure and
\* the status is left as it was; asyncInitialize always returns normally
\* with status Initialized.
C3_LifecycleContained ==
    /\ (Done("async_configure") /\ \A i \in DOMAIN calls : calls[i].result # OtherError)
          => (outcome = Returned(NoneValue) /\ status = CONFIGURED)
    /\ (Done("async_configure") /\ \E i \in DOMAIN calls : calls[i].result = OtherError)
          => (outcome = Raised(OtherError) /\ status = prev_status)
    /\ Done("async_initialize") => (outcome = Returned(NoneValue) /\ status = INITIALIZED)

\* C3 witness: an asyncConfigure whose bind was undeliverable and whose
\* configure-reporting call timed out has finished
C3_Witness ==
    /\ Done("async_configure")
    /\ Len(calls) >= 2
    /\ calls[1].result = DeliveryError
    /\ calls[2].result = TimeoutError
    /\ status = CONFIGURED

\* C4: with skipConfiguration set, asyncConfigure issues no bind call and no
\* configure-reporting call, whatever the role and reportConfig, and ends
\* with status Configured.
C4_SkipIssuesNoCalls ==
    (op = "async_configure" /\ skip_configuration)
        => (calls = <<>> /\ pc = "idle" /\ outcome = Returned(NoneValue)
            /\ status = CONFIGURED)

\* C4 witness: a skipped asyncConfigure of a server cluster with a declared
\* reportConfig, on a channel that was still Created
C4_Witness ==
    /\ Done("async_configure")
    /\ skip_configuration
    /\ is_server
    /\ Len(report_config) > 0
    /\ prev_status = CREATED
    /\ status = CONFIGURED

\* the (attr, config) pairs of the configure-reporting calls issued so far
ReportingIssued ==
    [i \in DOMAIN CallsTo("configure_reporting") |->
        [attr |-> CallsTo("configure_reporting")[i].attr,
         config |-> CallsTo("configure_reporting")[i].config]]

\* bind is the first call and is the only bind, and a call is issued only
\* when every earlier call of the operation has completed
BindFirstOneAtATime ==
    /\ Len(calls) >= 1
    /\ \A i \in DOMAIN calls : (calls[i].fn = "bind") <=> (i = 1)
    /\ \A i \in DOMAIN calls : i < Len(calls) => calls[i].result # "pending"

\* C5 as stated: in an asyncConfigure that does not skip configuration, bind
\* completes before any configure-reporting call, the calls are issued one
\* at a time, and at the end every entry of reportConfig has been configured
\* exactly once, in declared order.
C5_EveryEntryOnceInOrder ==
    (op = "async_configure" /\ kind # "ZDOChannel" /\ ~skip_configuration)
        => /\ BindFirstOneAtATime
           /\ pc = "idle" => ReportingIssued = report_config

\* C5 as amended: bind completes before any configure-reporting call and the
\* calls are issued one at a time; the configure-reporting calls issued are
\* always the first entries of reportConfig in declared order, each once;
\* on a server-role cluster an asyncConfigure that returns normally has
\* issued one for every entry, and on a cluster that is not in the server
\* role none is issued.
C5_BindThenReportingInOrder ==
    (op = "async_configure" /\ kind # "ZDOChannel" /\ ~skip_configuration)
        => /\ BindFirstOneAtATime
           /\ Len(ReportingIssued) <= Len(report_config)
           /\ \A i \in DOMAIN ReportingIssued : ReportingIssued[i] = report_config[i]
           /\ (pc = "idle" /\ outcome.kind = "returned" /\ is_server)
                 => ReportingIssued = report_config
           /\ ~is_server => ReportingIssued = <<>>

\* C5 witness: a finished asyncConfigure of a server cluster that configured
\* two different entries
C5_Witness ==
    /\ Done("async_configure")
    /\ ~skip_configuration
    /\ is_server
    /\ Len(report_config) >= 2
    /\ report_config[1] # report_config[2]
    /\ outcome.kind = "returned"
    /\ Len(ReportingIssued) = Len(report_config)

\* C6: when the transport's bind or configure-reporting primitive fails with
\* a delivery failure or a timeout, bind() and configureReporting() return
\* normally and leave the status unchanged.
C6_BindAndReportingContain ==
    (pc = "idle" /\ op \in {"bind", "configure_reporting"}
        /\ calls[1].result \in Contained)
        => (outcome = Returned(NoneValue) /\ status = prev_status)

\* C6 witness: configureReporting() timed out on a channel that had been
\* configured before
C6_Witness ==
    /\ Done("configure_reporting")
    /\ calls[1].result = TimeoutError
    /\ outcome.kind = "returned"
    /\ status = CONFIGURED

\* C7: a command wrapped by the Command Guard returns exactly the value of
\* the underlying call when it succeeds, and returns the error value itself
\* when the call fails with a delivery failure or a timeout.
C7_GuardReturnsValueOrError ==
    (Done("getattr") /\ resolved.kind = "wrapped")
        => /\ calls[1].result \in Values => outcome = Returned(calls[1].result)
           /\ calls[1].result \in Contained => outcome = Returned(calls[1].result)

\* C7 witness: a wrapped command timed out and the timeout came back as the
\* result
C7_Witness ==
    /\ Done("getattr")
    /\ resolved.kind = "wrapped"
    /\ calls[1].result = TimeoutError
    /\ outcome = Returned(TimeoutError)

\* C8: a failure that is neither a delivery failure nor a timeout propagates
\* unmodified out of the wrapped command, bind() and configureReporting().
C8_OtherFailuresPropagate ==
    (pc = "idle" /\ op \in {"bind", "configure_reporting", "getattr"}
        /\ Len(calls) = 1 /\ calls[1].result = OtherError)
        => outcome = Raised(OtherError)

\* C8 witness: a wrapped command failed with another failure and raised it
C8_Witness ==
    /\ Done("getattr")
    /\ resolved.kind = "wrapped"
    /\ calls[1].result = OtherError
    /\ outcome.kind = "raised"

\* C9: a name that is a member of the channel is never forwarded to the
\* cluster; a name that is not, but is a callable member of the cluster,
\* yields a wrapped command; any other name (absent from the cluster, or
\* present but not callable) fails with an attribute-resolution error.
C9_ForwardingResolution ==
    op = "getattr" =>
        /\ resolved.name \in ChannelMembers
              => (resolved.kind = "member" /\ calls = <<>>)
        /\ (resolved.name \notin ChannelMembers /\ resolved.name \in ClusterCallables)
              => (resolved.kind = "wrapped" /\ Len(calls) = 1
                  /\ calls[1].fn = "command" /\ calls[1].name = resolved.name)
        /\ (resolved.name \notin ChannelMembers /\ resolved.name \notin ClusterCallables)
              => (resolved.kind = "AttributeError" /\ calls = <<>>
                  /\ outcome = Raised("AttributeError"))

\* C9 witness: a name the cluster has, but as data, was looked up and the
\* lookup failed
C9_Witness ==
    /\ Done("getattr")
    /\ resolved.name \in ClusterData \ ChannelMembers
    /\ outcome = Raised("AttributeError")

\* C10: the manufacturer code is attached to a configure-reporting call and
\* to an attribute read exactly when the cluster id is >= 0xFC00 and the
\* device declares a manufacturer code; below 0xFC00 it is never attached.
C10_ManufacturerCodeAttached ==
    \A i \in DOMAIN calls :
        calls[i].fn \in {"configure_reporting", "read_attributes"}
            => /\ (calls[i].manufacturer # None)
                    <=> (cluster_id >= 64512 /\ manufacturer_code # None)
               /\ calls[i].manufacturer # None => calls[i].manufacturer = manufacturer_code

\* C10 witness: a configure-reporting call of a manufacturer specific
\* cluster carries the declared code
C10_Witness ==
    \E i \in DOMAIN calls :
        /\ calls[i].fn = "configure_reporting"
        /\ cluster_id >= 64512
        /\ manufacturer_code # None
        /\ calls[i].manufacturer = manufacturer_code

\* an inbound event has been delivered while a call of the channel was in
\* flight
DeliveredInFlight(name) == hook.name = name /\ pc # "idle"

\* C11: on an Attribute-Listening Channel an attributeUpdated(a, v) whose a
\* is the declared valueAttribute emits exactly one signal named
\* {uniqueId}_attribute_updated carrying v, and one for any other attribute
\* emits nothing, in every status and whether or not a call is in flight.
C11_ListeningSignal ==
    (kind = "AttributeListeningChannel" /\ hook.name = "attribute_updated")
        => IF hook.attrid = report_config[1].attr
           THEN /\ Len(emitted) = 1
                /\ emitted[1].via = "signal"
                /\ emitted[1].name = UniqueId \o "_attribute_updated"
                /\ emitted[1].value = hook.value
           ELSE emitted = <<>>

\* C11 witness: a report of the declared attribute arrived while a call was
\* in flight and one signal went out
C11_Witness ==
    /\ kind = "AttributeListeningChannel"
    /\ DeliveredInFlight("attribute_updated")
    /\ hook.attrid = report_config[1].attr
    /\ Len(emitted) = 1
    /\ status = INITIALIZED

\* C12: on an Event-Relay Channel a clusterCommand whose commandId is in the
\* cluster's server-command table emits exactly one event whose command is
\* the table's name for that id and whose args are the received args; one
\* whose id is not in the table, or when there is no table, emits nothing.
C12_RelayedCommand ==
    (kind = "EventRelayChannel" /\ hook.name = "cluster_command")
        => IF ~server_commands.is_none /\ hook.command_id \in DOMAIN ServerCommands
           THEN /\ Len(emitted) = 1
                /\ emitted[1].via = "event"
                /\ emitted[1].name = ServerCommands[hook.command_id][1]
                /\ emitted[1].args = hook.args
                /\ emitted[1].unique_id = UniqueId
                /\ emitted[1].cluster_id = cluster_id
           ELSE emitted = <<>>

\* C12 witness: command 5 arrived on a relay whose table names it toggle
C12_Witness ==
    /\ kind = "EventRelayChannel"
    /\ hook.name = "cluster_command"
    /\ hook.command_id = 5
    /\ Len(emitted) = 1
    /\ emitted[1].name = "toggle"
    /\ emitted[1].args = <<7>>

\* C13: on an Event-Relay Channel every attributeUpdated(attributeId, value)
\* emits exactly one event carrying that id, that value and the attribute's
\* name from the cluster's table, or "Unknown" when the id is not in it.
C13_RelayedAttribute ==
    (kind = "EventRelayChannel" /\ hook.name = "attribute_updated")
        => /\ Len(emitted) = 1
           /\ emitted[1].via = "event"
           /\ emitted[1].name = "attribute_updated"
           /\ emitted[1].attribute_id = hook.attrid
           /\ emitted[1].value = hook.value
           /\ emitted[1].attribute_name =
                 (IF hook.attrid = 0 THEN "on_off" ELSE "Unknown")

\* C13 witness: a report of an attribute the table does not name was relayed
C13_Witness ==
    /\ kind = "EventRelayChannel"
    /\ hook.name = "attribute_updated"
    /\ hook.attrid \notin DOMAIN ClusterAttributes
    /\ Len(emitted) = 1
    /\ emitted[1].attribute_name = "Unknown"

\* an asyncConfigure of a cluster channel that does not skip configuration
\* is running or has run
Configuring == op = "async_configure" /\ kind # "ZDOChannel" /\ ~skip_configuration

\* C14: when configuration is not skipped and the cluster is not in the
\* server role, asyncConfigure issues the bind call and no configure-
\* reporting call, even with a non-empty reportConfig.
C14_ClientRoleBindsOnly ==
    (Configuring /\ ~is_server)
        => /\ Len(calls) = 1
           /\ calls[1].fn = "bind"
           /\ \A i \in DOMAIN calls : calls[i].fn # "configure_reporting"

\* C14 witness: asyncConfigure has finished on a client-role cluster whose
\* channel declares reporting entries
C14_Witness ==
    /\ Configuring
    /\ pc = "idle"
    /\ ~is_server
    /\ Len(report_config) > 0
    /\ calls[1].result \in Values
    /\ status = CONFIGURED

\* C15: during asyncConfigure on a server-role cluster the configure-
\* reporting call of an entry after the first is issued only when the pause
\* that follows the previous entry's call has completed.
C15_PauseBetweenReportingCalls ==
    Configuring =>
        \A i \in DOMAIN calls :
            (calls[i].fn = "configure_reporting" /\ i > 2)
                => /\ calls[i - 1].fn = "sleep"
                   /\ calls[i - 1].result = "elapsed"
                   /\ calls[i - 2].fn = "configure_reporting"
                   /\ calls[i - 2].result # "pending"

\* C15 witness: the call for the second entry is in flight
C15_Witness ==
    /\ Configuring
    /\ is_server
    /\ pc = "configure_reporting"
    /\ idx = 2
    /\ Len(CallsTo("configure_reporting")) = 2

\* C16 as stated: on an Attribute-Listening Channel the status is never
\* Initialized while the read of asyncInitialize is in flight.
C16_NotInitializedDuringRead ==
    (kind = "AttributeListeningChannel" /\ op = "async_initialize"
        /\ pc = "read_attributes")
        => status # INITIALIZED

\* C16 as amended: asyncInitialize(fromCache) of an Attribute-Listening
\* Channel first issues the read of the declared attribute with fromCache
\* passed through; while that read is in flight the status is still what it
\* was when asyncInitialize was called, and it is Initialized once the read
\* has completed.
C16_ReadBeforeInitialized ==
    (kind = "AttributeListeningChannel" /\ op = "async_initialize")
        => /\ Len(calls) = 1
           /\ calls[1].fn = "read_attributes"
           /\ calls[1].attr = report_config[1].attr
           /\ calls[1].allow_cache = op_args.from_cache
           /\ calls[1].only_cache = op_args.from_cache
           /\ pc = "read_attributes" => (calls[1].result = "pending" /\ status = prev_status)
           /\ pc = "idle" => (calls[1].result # "pending" /\ status = INITIALIZED)

\* C16 witness: the read of an asyncInitialize(fromCache = true) is in flight
\* on a channel that is Configured
C16_Witness ==
    /\ kind = "AttributeListeningChannel"
    /\ op = "async_initialize"
    /\ pc = "read_attributes"
    /\ op_args.from_cache
    /\ status = CONFIGURED

\* C17: getAttributeValue(attribute, fromCache) issues exactly one attribute
\* read, for the requested attribute, whose allow-cache and only-cache flags
\* both equal fromCache, and does not change the status.
C17_OneReadWithCacheFlags ==
    op = "get_attribute_value"
        => /\ Len(calls) = 1
           /\ calls[1].fn = "read_attributes"
           /\ calls[1].attr = op_args.attribute
           /\ calls[1].allow_cache = op_args.from_cache
           /\ calls[1].only_cache = op_args.from_cache
           /\ status = prev_status

\* C17 witness: a live read (fromCache = false) has completed
C17_Witness ==
    /\ Done("get_attribute_value")
    /\ ~op_args.from_cache
    /\ ~calls[1].allow_cache
    /\ calls[1].result \in Values
    /\ outcome = Returned(calls[1].result)

\* a step in which an inbound-event hook ran
HookRan == hook' # hook \/ emitted' # emitted

\* C19: an inbound-event hook never changes the status and never issues a
\* transport call, at any status and at any point of an operation in flight;
\* all it can do is emit a signal or an event.
C19_HooksOnlyEmit ==
    [][HookRan => UNCHANGED <<config_vars, status, op, op_args, pc, idx, calls,
                              outcome, prev_status, resolved>>]_vars

\* C19 witness: an attribute report was relayed while the bind of an
\* asyncConfigure was in flight, and the channel is as it was
C19_Witness ==
    /\ DeliveredInFlight("attribute_updated")
    /\ Len(emitted) = 1
    /\ op = "async_configure"
    /\ pc = "bind"
    /\ calls = <<BindCall>>
    /\ status = INITIALIZED

\* C20: on a server-role cluster with configuration not skipped a bind or a
\* configure-reporting call that ends in a delivery failure or a timeout
\* does not end asyncConfigure: every entry of reportConfig is still
\* attempted, and the pause after the last entry's call completes before the
\* status is set to Configured.
C20_ContainedFailureGoesOn ==
    (Configuring /\ is_server
        /\ \A i \in DOMAIN calls : calls[i].result # OtherError)
        => /\ pc = "idle" =>
                /\ ReportingIssued = report_config
                /\ status = CONFIGURED
                /\ Len(report_config) > 0 =>
                      (calls[Len(calls)].fn = "sleep"
                       /\ calls[Len(calls)].result = "elapsed")
           /\ pc # "idle" => status = prev_status

\* C20 witness: bind was undeliverable, the first entry's call timed out and
\* both entries were attempted
C20_Witness ==
    /\ Configuring
    /\ is_server
    /\ pc = "idle"
    /\ Len(report_config) = 2
    /\ calls[1].result = DeliveryError
    /\ calls[2].result = TimeoutError
    /\ Len(CallsTo("configure_reporting")) = 2
    /\ status = CONFIGURED

\* an asyncConfigure has started and has not finished
ConfigureInFlight == op = "async_configure" /\ pc # "idle"

\* asyncConfigure has finished, with status Configured unless one of its
\* calls failed with a failure that is neither a delivery failure nor a
\* timeout
ConfigureFinished ==
    /\ Done("async_configure")
    /\ \/ status = CONFIGURED /\ outcome = Returned(NoneValue)
       \/ \E i \in DOMAIN calls : calls[i].result = OtherError

\* C18: asyncConfigure terminates: when every transport call it issues
\* completes and every pause elapses, a started asyncConfigure eventually
\* finishes and, its calls ending in success, a delivery failure or a
\* timeout, the status is then Configured.
C18_ConfigureTerminates == ConfigureInFlight ~> ConfigureFinished

\* C18 witness: an asyncConfigure over two entries, started on a channel that
\* was Created, has finished with status Configured
C18_Witness ==
    /\ Done("async_configure")
    /\ is_server
    /\ Len(report_config) = 2
    /\ Len(calls) = 5
    /\ prev_status = CREATED
    /\ status = CONFIGURED
====
